---- MODULE Spec2Model ----
(***************************************************************************)
(* A model of the trip planner: the itinerary calculator, the duration     *)
(* parser and the duration formatter (src/src/lib/timeCalculations.ts),    *)
(* the store and the drive-time lookups of the itinerary table             *)
(* (src/src/context/TripContext.tsx, src/src/components/TripItinerary.tsx) *)
(* and the Basic-authentication middleware.                                *)
(*                                                                         *)
(* Representation.  A Date is the integer number of seconds since an       *)
(* arbitrary epoch; a duration that the code holds as a number of hours h  *)
(* is held as the integer 3600 * h (seconds), so that fractional hours     *)
(* with up to two decimals, minutes and days are all exact integers and    *)
(* addHours is integer addition.  A nullable value (T | null) is the empty *)
(* tuple for null and the one-element tuple <<v>> for a value v.           *)
(* A string is the sequence of its characters.  The number of hours that   *)
(* parseDuration returns is an exact rational [num, den] in lowest terms   *)
(* (the rounding of IEEE doubles is not modelled).                         *)
(***************************************************************************)
EXTENDS Integers, Sequences, FiniteSets, TLC

VARIABLES
    stops,            \* TripStop[]: the stop list handed to calculateItinerary
    startDateTime,    \* Date: the trip's start time
    calculatedStops,  \* CalculatedStop[]: the array calculateItinerary builds and returns
    pc,               \* position of the caller / of the call in progress
    currentTime,      \* calculateItinerary's local cursor (let currentTime)
    i,                \* calculateItinerary's loop index (let i)
    memo,             \* an earlier call's (stops, startDateTime, result), or null
    text,             \* a string, as the sequence of its characters: the one handed
                      \* to parseDuration, the one formatDuration returned, or the
                      \* credentials a client types
    typed,            \* the number of pieces the user typed to make text
    hours,            \* a duration in hours: what parseDuration returned for text
                      \* (null: no match), or what formatDuration is given
    useDays,          \* formatDuration's second argument
    lookups,          \* the drive-time lookups of the itinerary table still running
    nextId,           \* the number of ids addStop has handed out, plus one
    edits,            \* the number of changes, other than adding a stop, the user made
    user,             \* process.env.BASIC_AUTH_USER (null: not set)
    password,         \* process.env.BASIC_AUTH_PASSWORD (null: not set)
    authHeader,       \* the request's Authorization header (null: none)
    response,         \* what the middleware did with the request
    parsedBack,       \* parseDuration of the formatter's text (null: not parsed yet)
    segments,         \* the route segments the map draws (null: not built yet)
    tripName,         \* the store's trip name
    exported,         \* the downloaded trip file (null: none yet)
    shared            \* the payload of the generated share link (null: none yet)

\* The variables only the formatter and only the store and its table use.
formatVars == <<useDays, parsedBack>>

storeVars == <<lookups, nextId, edits>>

\* The variables only the middleware uses.
authVars == <<user, password, authHeader, response>>

\* The variable only the map uses.
mapVars == <<segments>>

\* The trip name, and what export and sharing hand out.
shareVars == <<tripName, exported, shared>>

vars == <<stops, startDateTime, calculatedStops, pc, currentTime, i, memo, text, typed, hours,
          formatVars, storeVars, authVars, mapVars, shareVars>>

----------------------------------------------------------------------------
(* Bounds of the model *)

MaxStops == 4

MaxCallStops == 2

MaxTyped == 4

\* The most digits a typed text holds (the numbers stay below 2^31).
MaxDigits == 6

\* Durations handed to formatDuration are shorter than this many hours.
MaxFormatHours == 50

\* The number of stops the user adds to the store.
\* The most characters a client's credentials have.
MaxCredentials == 5

MaxCreated == 3

\* The number of changes, other than adding a stop, the user makes.
MaxEdits == 2

\* The user changes the stop list only when fewer than this many runs of the
\* drive-time effect are under way.
MaxLookups == 2

----------------------------------------------------------------------------
(* Nullable values: T | null, and the ?? operator *)

null == <<>>

Some(v) == <<v>>

Coalesce(x, d) == IF x = null THEN d ELSE x[1]

----------------------------------------------------------------------------
(* types/trip.ts *)

\* The TripStop fields.  city, state, fullAddress, lat and lng are display and
\* geographic data of the place and are carried by placeId here.
TripStopFields ==
    {"id", "placeId", "name", "timeAtDestination", "driveTimeFromPrevious",
     "travelType", "notes", "manualDepartureTime"}

CalculatedStopFields == TripStopFields \cup {"arrivalTime", "departureTime"}

----------------------------------------------------------------------------
(* lib/timeCalculations.ts: calculateItinerary *)

\* date-fns addHours(date, amount): the date `amount` hours later.
addHours(date, amount) == date + amount

\* A variant of the first branch that lets the first stop stay before leaving.
FirstStop_StaysAtOrigin(stop, cur) ==
    LET departureTime ==
            Coalesce(stop.manualDepartureTime, addHours(cur, stop.timeAtDestination))
    IN  [arrivalTime |-> null, departureTime |-> departureTime] @@ stop

\* The i === 0 branch: the record pushed for the starting point.
FirstStop(stop, cur) ==
    LET departureTime == Coalesce(stop.manualDepartureTime, cur)
    IN  [arrivalTime |-> null, departureTime |-> departureTime] @@ stop

\* Variants of the else branch, each with one plausible slip.
NextStop_DriveTimeDropped(stop, cur) ==
    LET arrivalTime == cur
        departureTime ==
            Coalesce(stop.manualDepartureTime,
                     addHours(arrivalTime, stop.timeAtDestination))
    IN  [arrivalTime |-> Some(arrivalTime), departureTime |-> departureTime] @@ stop

NextStop_OverrideClamped(stop, cur) ==
    LET driveTime == Coalesce(stop.driveTimeFromPrevious, 0)
        arrivalTime == addHours(cur, driveTime)
        computed == addHours(arrivalTime, stop.timeAtDestination)
        manual == Coalesce(stop.manualDepartureTime, computed)
        departureTime == IF manual < arrivalTime THEN arrivalTime ELSE manual
    IN  [arrivalTime |-> Some(arrivalTime), departureTime |-> departureTime] @@ stop

NextStop_StayFromCursor(stop, cur) ==
    LET driveTime == Coalesce(stop.driveTimeFromPrevious, 0)
        arrivalTime == addHours(cur, driveTime)
        departureTime ==
            Coalesce(stop.manualDepartureTime,
                     addHours(cur, stop.timeAtDestination))
    IN  [arrivalTime |-> Some(arrivalTime), departureTime |-> departureTime] @@ stop

NextStop_NoArrivalWithoutDriveTime(stop, cur) ==
    LET driveTime == Coalesce(stop.driveTimeFromPrevious, 0)
        arrivalTime == addHours(cur, driveTime)
        departureTime ==
            Coalesce(stop.manualDepartureTime,
                     addHours(arrivalTime, stop.timeAtDestination))
    IN  [arrivalTime |-> IF stop.driveTimeFromPrevious = null
                         THEN null ELSE Some(arrivalTime),
         departureTime |-> departureTime] @@ stop

NextStop_OverrideIgnored(stop, cur) ==
    LET driveTime == Coalesce(stop.driveTimeFromPrevious, 0)
        arrivalTime == addHours(cur, driveTime)
        departureTime == addHours(arrivalTime, stop.timeAtDestination)
    IN  [arrivalTime |-> Some(arrivalTime), departureTime |-> departureTime] @@ stop

NextStop_OverrideMovesArrival(stop, cur) ==
    LET driveTime == Coalesce(stop.driveTimeFromPrevious, 0)
        computedArrival == addHours(cur, driveTime)
        departureTime ==
            Coalesce(stop.manualDepartureTime,
                     addHours(computedArrival, stop.timeAtDestination))
        arrivalTime ==
            IF stop.manualDepartureTime = null
            THEN computedArrival
            ELSE addHours(departureTime, 0 - stop.timeAtDestination)
    IN  [arrivalTime |-> Some(arrivalTime), departureTime |-> departureTime] @@ stop

NextStop_DriveTimeNormalised(stop, cur) ==
    LET driveTime == Coalesce(stop.driveTimeFromPrevious, 0)
        arrivalTime == addHours(cur, driveTime)
        departureTime ==
            Coalesce(stop.manualDepartureTime,
                     addHours(arrivalTime, stop.timeAtDestination))
    IN  [arrivalTime |-> Some(arrivalTime), departureTime |-> departureTime,
         driveTimeFromPrevious |-> Some(driveTime)] @@ stop

NextStop_DefaultDriveTime(stop, cur) ==
    LET driveTime == Coalesce(stop.driveTimeFromPrevious, 3600)
        arrivalTime == addHours(cur, driveTime)
        departureTime ==
            Coalesce(stop.manualDepartureTime,
                     addHours(arrivalTime, stop.timeAtDestination))
    IN  [arrivalTime |-> Some(arrivalTime), departureTime |-> departureTime] @@ stop

\* The else branch: the record pushed for a stop at index >= 1.
NextStop(stop, cur) ==
    LET driveTime == Coalesce(stop.driveTimeFromPrevious, 0)
        arrivalTime == addHours(cur, driveTime)
        departureTime ==
            Coalesce(stop.manualDepartureTime,
                     addHours(arrivalTime, stop.timeAtDestination))
    IN  [arrivalTime |-> Some(arrivalTime), departureTime |-> departureTime] @@ stop

\* One iteration of the for loop, for the stop at 0-based index idx.
LoopBody(stop, idx, cur) ==
    IF idx = 0 THEN FirstStop(stop, cur) ELSE NextStop(stop, cur)

\* The for loop from index idx on: cur is currentTime and acc is calculatedStops
\* as the iterations before idx left them.
RECURSIVE ForLoop(_, _, _, _)
ForLoop(stopList, idx, cur, acc) ==
    IF idx < Len(stopList)
    THEN LET pushed == LoopBody(stopList[idx + 1], idx, cur)
         IN  ForLoop(stopList, idx + 1, pushed.departureTime, Append(acc, pushed))
    ELSE acc

\* calculateItinerary as a function of its arguments.
calculateItinerary(stopList, start) == ForLoop(stopList, 0, start, <<>>)

----------------------------------------------------------------------------
(* Inputs of calculateItinerary *)

StartTimes == {0, 28800}

TimeAtDestValues == {-3600, 5400}

DriveTimeValues == {null, Some(7200)}

ManualValues == {null, Some(3600)}

\* The values an override is set to when two runs are compared.
OverrideValues == {null, Some(3600), Some(36000)}

\* The identity of the stop placed at position p of an input list.
Place(p) ==
    [id |-> p, placeId |-> 100 + p,
     name |-> IF p % 2 = 1 THEN "odd" ELSE "even",
     travelType |-> IF p % 2 = 1 THEN "drive" ELSE "fly",
     notes |-> IF p = 1 THEN "" ELSE "note"]

Timing ==
    [timeAtDestination : TimeAtDestValues,
     driveTimeFromPrevious : DriveTimeValues,
     manualDepartureTime : ManualValues]

----------------------------------------------------------------------------
(* Specification SpecCalc: calculateItinerary applied to every input *)

InitCalc ==
    /\ stops = <<>>
    /\ startDateTime \in StartTimes
    /\ calculatedStops = <<>>
    /\ pc = "idle"
    /\ currentTime = 0
    /\ i = 0
    /\ memo = null
    /\ text = <<>>
    /\ typed = 0
    /\ hours = null
    /\ useDays = TRUE
    /\ parsedBack = null
    /\ lookups = {}
    /\ nextId = 1
    /\ edits = 0
    /\ user = null
    /\ password = null
    /\ authHeader = null
    /\ response = null
    /\ segments = null
    /\ tripName = "My Road Trip"
    /\ exported = null
    /\ shared = null

\* const calculatedStops = calculateItinerary(stops, startDateTime)
Calculate ==
    /\ pc = "idle"
    /\ calculatedStops' = calculateItinerary(stops, startDateTime)
    /\ pc' = "done"
    /\ UNCHANGED <<stops, startDateTime, currentTime, i, memo, text, typed, hours>>
    /\ UNCHANGED <<formatVars, mapVars, shareVars, authVars, storeVars>>

\* The caller composes the argument list, one stop at a time.
Compose ==
    /\ pc = "idle"
    /\ Len(stops) < MaxStops
    /\ \E t \in Timing : stops' = Append(stops, t @@ Place(Len(stops) + 1))
    /\ UNCHANGED <<startDateTime, calculatedStops, pc, currentTime, i, memo, text, typed, hours>>
    /\ UNCHANGED <<formatVars, mapVars, shareVars, authVars, storeVars>>

NextCalc == Compose \/ Calculate

SpecCalc == InitCalc /\ [][NextCalc]_vars

----------------------------------------------------------------------------
(* Specification SpecCalls: calculateItinerary statement by statement, called *)
(* again and again by a caller that edits its stop list between the calls     *)

CallTiming ==
    [timeAtDestination : {5400},
     driveTimeFromPrevious : DriveTimeValues,
     manualDepartureTime : ManualValues]

InitCalls ==
    /\ stops = <<>>
    /\ startDateTime \in StartTimes
    /\ calculatedStops = <<>>
    /\ pc = "idle"
    /\ currentTime = 0
    /\ i = 0
    /\ memo = null
    /\ text = <<>>
    /\ typed = 0
    /\ hours = null
    /\ useDays = TRUE
    /\ parsedBack = null
    /\ lookups = {}
    /\ nextId = 1
    /\ edits = 0
    /\ user = null
    /\ password = null
    /\ authHeader = null
    /\ response = null
    /\ segments = null
    /\ tripName = "My Road Trip"
    /\ exported = null
    /\ shared = null

\* A prologue that keeps the result array across calls (an array hoisted out of
\* the function).
Prologue_SharedArray ==
    /\ calculatedStops' = calculatedStops
    /\ currentTime' = startDateTime'
    /\ i' = 0

\* const calculatedStops = []; let currentTime = startDateTime; let i = 0
Prologue ==
    /\ calculatedStops' = <<>>
    /\ currentTime' = startDateTime'
    /\ i' = 0

\* The caller calls with the arguments it called with before.
CallAgain ==
    /\ pc \in {"idle", "done"}
    /\ UNCHANGED <<stops, startDateTime>>
    /\ Prologue
    /\ pc' = "loop"
    /\ UNCHANGED <<memo, text, typed, hours>>
    /\ UNCHANGED <<formatVars, mapVars, shareVars, authVars, storeVars>>

\* The caller appends a stop to its list, or drops the last one, and calls.
CallWithStops ==
    /\ pc \in {"idle", "done"}
    /\ \/ /\ Len(stops) < MaxCallStops
          /\ \E t \in CallTiming : stops' = Append(stops, t @@ Place(Len(stops) + 1))
       \/ /\ stops # <<>>
          /\ stops' = SubSeq(stops, 1, Len(stops) - 1)
    /\ UNCHANGED startDateTime
    /\ Prologue
    /\ pc' = "loop"
    /\ UNCHANGED <<memo, text, typed, hours>>
    /\ UNCHANGED <<formatVars, mapVars, shareVars, authVars, storeVars>>

\* The caller changes the start time and calls.
CallWithStart ==
    /\ pc \in {"idle", "done"}
    /\ \E s \in StartTimes \ {startDateTime} : startDateTime' = s
    /\ UNCHANGED stops
    /\ Prologue
    /\ pc' = "loop"
    /\ UNCHANGED <<memo, text, typed, hours>>
    /\ UNCHANGED <<formatVars, mapVars, shareVars, authVars, storeVars>>

\* for (...; i < stops.length; i++) { ... }: one iteration.
Iterate ==
    /\ pc = "loop"
    /\ i < Len(stops)
    /\ \E pushed \in {LoopBody(stops[i + 1], i, currentTime)} :
          /\ calculatedStops' = Append(calculatedStops, pushed)
          /\ currentTime' = pushed.departureTime
    /\ i' = i + 1
    /\ UNCHANGED <<stops, startDateTime, pc, memo, text, typed, hours>>
    /\ UNCHANGED <<formatVars, mapVars, shareVars, authVars, storeVars>>

\* return calculatedStops
Return ==
    /\ pc = "loop"
    /\ ~(i < Len(stops))
    /\ pc' = "done"
    /\ UNCHANGED <<stops, startDateTime, calculatedStops, currentTime, i, memo, text, typed, hours>>
    /\ UNCHANGED <<formatVars, mapVars, shareVars, authVars, storeVars>>

\* The observer keeps one call's arguments and result to compare later calls with.
Remember ==
    /\ pc = "done"
    /\ memo = null
    /\ memo' = Some([stops |-> stops, startDateTime |-> startDateTime,
                     result |-> calculatedStops])
    /\ UNCHANGED <<stops, startDateTime, calculatedStops, pc, currentTime, i, text, typed, hours>>
    /\ UNCHANGED <<formatVars, mapVars, shareVars, authVars, storeVars>>

NextCalls ==
    \/ CallAgain
    \/ CallWithStops
    \/ CallWithStart
    \/ Iterate
    \/ Return
    \/ Remember

SpecCalls == InitCalls /\ [][NextCalls]_vars

----------------------------------------------------------------------------
(* Numbers: exact rationals in lowest terms *)

Abs(n) == IF n < 0 THEN 0 - n ELSE n

RECURSIVE GCD(_, _)
GCD(a, b) == IF b = 0 THEN a ELSE GCD(b, a % b)

Rat(n, d) ==
    LET g == GCD(Abs(n), d)
    IN  [num |-> n \div g, den |-> d \div g]

RatAdd(x, y) == Rat(x.num * y.den + y.num * x.den, x.den * y.den)

RatMul(x, k) == Rat(x.num * k, x.den)

RatDiv(x, k) == Rat(x.num, x.den * k)

RECURSIVE Pow10(_)
Pow10(k) == IF k = 0 THEN 1 ELSE 10 * Pow10(k - 1)

----------------------------------------------------------------------------
(* Strings and the regular expressions of parseDuration *)

DigitChars == <<"0", "1", "2", "3", "4", "5", "6", "7", "8", "9">>

\* \d
Digit == {DigitChars[k] : k \in 1..10}

DigitValue(c) == (CHOOSE k \in 1..10 : DigitChars[k] = c) - 1

\* \s, and what trim() removes
WhiteSpace == {" ", "\t", "\n", "\r"}

UpperLetters ==
    <<"A", "B", "C", "D", "E", "F", "G", "H", "I", "J", "K", "L", "M",
      "N", "O", "P", "Q", "R", "S", "T", "U", "V", "W", "X", "Y", "Z">>

LowerLetters ==
    <<"a", "b", "c", "d", "e", "f", "g", "h", "i", "j", "k", "l", "m",
      "n", "o", "p", "q", "r", "s", "t", "u", "v", "w", "x", "y", "z">>

\* String.prototype.toLowerCase
toLowerCase(s) ==
    [k \in 1..Len(s) |->
        IF \E u \in 1..26 : UpperLetters[u] = s[k]
        THEN LowerLetters[CHOOSE u \in 1..26 : UpperLetters[u] = s[k]]
        ELSE s[k]]

\* String.prototype.trim
trim(s) ==
    LET inside == {k \in 1..Len(s) : s[k] \notin WhiteSpace}
    IN  IF inside = {} THEN <<>>
        ELSE SubSeq(s, CHOOSE k \in inside : \A h \in inside : k <= h,
                       CHOOSE k \in inside : \A h \in inside : k >= h)

\* The elements of a regular expression: a character class repeated at least
\* min times, one of several literal words, and an optional group.
Rep(class, min) == [kind |-> "rep", class |-> class, min |-> min]

Alt(words) == [kind |-> "alt", words |-> words]

Opt(sub) == [kind |-> "opt", sub |-> sub]

\* The positions at which a match of the element sequence re that starts after
\* position from of s can end.
RECURSIVE Ends(_, _, _)
Ends(re, s, from) ==
    IF re = <<>>
    THEN {from}
    ELSE LET e == Head(re)
             first ==
                CASE e.kind = "rep" ->
                        {p \in (from + e.min)..Len(s) :
                            \A k \in (from + 1)..p : s[k] \in e.class}
                  [] e.kind = "alt" ->
                        {from + Len(w) : w \in
                            {v \in e.words :
                                /\ from + Len(v) <= Len(s)
                                /\ SubSeq(s, from + 1, from + Len(v)) = v}}
                  [] e.kind = "opt" ->
                        {from} \cup Ends(e.sub, s, from)
         IN  UNION {Ends(Tail(re), s, p) : p \in first}

\* A pattern is a sequence of parts, each a sequence of elements.  The ways the
\* whole of s from position from on matches the parts: each way is the
\* sequence of the positions at which the parts end.
RECURSIVE Spans(_, _, _)
Spans(parts, s, from) ==
    IF parts = <<>>
    THEN IF from = Len(s) THEN {<<>>} ELSE {}
    ELSE UNION {{<<p>> \o rest : rest \in Spans(Tail(parts), s, p)} :
                    p \in Ends(Head(parts), s, from)}

\* s.match(/^...$/): null, or the text each part of the pattern matched.
Match(parts, s) ==
    LET ways == Spans(parts, s, 0)
    IN  IF ways = {} THEN null
        ELSE LET ends == CHOOSE w \in ways : TRUE
             IN  Some([j \in 1..Len(parts) |->
                        SubSeq(s, (IF j = 1 THEN 0 ELSE ends[j - 1]) + 1, ends[j])])

\* \d+
Digits == <<Rep(Digit, 1)>>

\* \d+(?:\.\d+)?
Number == <<Rep(Digit, 1), Opt(<<Alt({<<".">>}), Rep(Digit, 1)>>)>>

\* \s*  and  \s+
Spaces == <<Rep(WhiteSpace, 0)>>

SomeSpaces == <<Rep(WhiteSpace, 1)>>

\* (?:days?|d)
DayWords == {<<"d", "a", "y", "s">>, <<"d", "a", "y">>, <<"d">>}

\* (?:hours?|h)
HourWords == {<<"h", "o", "u", "r", "s">>, <<"h", "o", "u", "r">>, <<"h">>}

\* (?:minutes?|mins?|m)
MinuteWords ==
    {<<"m", "i", "n", "u", "t", "e", "s">>, <<"m", "i", "n", "u", "t", "e">>,
     <<"m", "i", "n", "s">>, <<"m", "i", "n">>, <<"m">>}

\* /^(\d+(?:\.\d+)?)\s*(?:days?|d)$/                                  groups: 1
DaysPattern == <<Number, Spaces, <<Alt(DayWords)>>>>

\* /^(\d+)\s*(?:days?|d)\s+(\d+(?:\.\d+)?)\s*(?:hours?|h)?$/          groups: 1, 5
DaysHoursPattern ==
    <<Digits, Spaces, <<Alt(DayWords)>>, SomeSpaces, Number, Spaces,
      <<Opt(<<Alt(HourWords)>>)>>>>

\* /^(\d+(?:\.\d+)?)\s*(?:hours?|h)$/                                 groups: 1
HoursPattern == <<Number, Spaces, <<Alt(HourWords)>>>>

\* /^(\d+)\s*h(?:\s*(\d+)\s*m)?$/ with the optional group taken       groups: 1, 5
HoursMinutesPattern ==
    <<Digits, Spaces, <<Alt({<<"h">>})>>, Spaces, Digits, Spaces, <<Alt({<<"m">>})>>>>

\* /^(\d+)\s*h(?:\s*(\d+)\s*m)?$/ with the optional group left out    groups: 1
HoursOnlyPattern == <<Digits, Spaces, <<Alt({<<"h">>})>>>>

\* /^(\d+)\s*(?:minutes?|mins?|m)$/                                   groups: 1
MinutesPattern == <<Digits, Spaces, <<Alt(MinuteWords)>>>>

\* /^(\d+):(\d+)$/                                                    groups: 1, 3
ColonPattern == <<Digits, <<Alt({<<":">>})>>, Digits>>

----------------------------------------------------------------------------
(* lib/timeCalculations.ts: parseDuration *)

\* The value of a string of decimal digits.
RECURSIVE DigitsValue(_)
DigitsValue(s) ==
    IF s = <<>> THEN 0
    ELSE 10 * DigitsValue(SubSeq(s, 1, Len(s) - 1)) + DigitValue(s[Len(s)])

\* A parseInt that stops after the first digit.
parseInt_FirstDigit(s) == Rat(DigitValue(s[1]), 1)

\* parseInt(s, 10) of a string of digits.
parseInt(s) == Rat(DigitsValue(s), 1)

\* The last position of the run of digits of s that starts at position from
\* (from - 1 when there is none).
RECURSIVE DigitRun(_, _)
DigitRun(s, from) ==
    IF from <= Len(s) /\ s[from] \in Digit THEN DigitRun(s, from + 1) ELSE from - 1

\* The longest prefix of s that parseFloat reads as a decimal literal: an
\* optional sign, digits, and an optional point and digits (or a point and
\* digits).  len is 0 when there is none.  Exponents and "Infinity" are not
\* modelled: no text of the model holds an "e", and the text is lower case.
NumericPrefix(s) ==
    LET signed == s # <<>> /\ s[1] \in {"-", "+"}
        first == IF signed THEN 2 ELSE 1
        intEnd == DigitRun(s, first)
        point == intEnd < Len(s) /\ s[intEnd + 1] = "."
        fracEnd == IF point THEN DigitRun(s, intEnd + 2) ELSE intEnd
        intDigits == SubSeq(s, first, intEnd)
        fracDigits == IF point THEN SubSeq(s, intEnd + 2, fracEnd) ELSE <<>>
        magnitude ==
            Rat(DigitsValue(intDigits) * Pow10(Len(fracDigits)) + DigitsValue(fracDigits),
                Pow10(Len(fracDigits)))
    IN  IF intDigits = <<>> /\ fracDigits = <<>>
        THEN [len |-> 0, value |-> Rat(0, 1)]
        ELSE [len |-> IF fracDigits = <<>> /\ point THEN intEnd + 1 ELSE fracEnd,
              value |-> IF signed /\ s[1] = "-"
                        THEN Rat(0 - magnitude.num, magnitude.den)
                        ELSE magnitude]

\* A parseFloat that reads a number only when it is the whole string.
parseFloat_WholeString(s) ==
    IF NumericPrefix(trim(s)).len = Len(trim(s)) /\ trim(s) # <<>>
    THEN Some(NumericPrefix(trim(s)).value)
    ELSE null

\* parseFloat(s): the number the longest numeric prefix of s denotes, after
\* leading white space; null stands for NaN.
parseFloat(s) ==
    LET t == trim(s)
    IN  IF NumericPrefix(t).len = 0 THEN null ELSE Some(NumericPrefix(t).value)

\* parseDuration(text): a number of hours, or null.
parseDuration(str) ==
    LET trimmed == toLowerCase(trim(str))
        daysMatch == Match(DaysPattern, trimmed)
        daysHoursMatch == Match(DaysHoursPattern, trimmed)
        hoursMatch == Match(HoursPattern, trimmed)
        hoursMinutes == Match(HoursMinutesPattern, trimmed)
        hoursOnly == Match(HoursOnlyPattern, trimmed)
        minutesMatch == Match(MinutesPattern, trimmed)
        colonFormat == Match(ColonPattern, trimmed)
        decimal == parseFloat(trimmed)
    IN  IF daysMatch # null
        THEN Some(RatMul(parseFloat(daysMatch[1][1])[1], 24))
        ELSE IF daysHoursMatch # null
        THEN Some(RatAdd(RatMul(parseInt(daysHoursMatch[1][1]), 24),
                         parseFloat(daysHoursMatch[1][5])[1]))
        ELSE IF hoursMatch # null
        THEN Some(parseFloat(hoursMatch[1][1])[1])
        ELSE IF hoursMinutes # null
        THEN Some(RatAdd(parseInt(hoursMinutes[1][1]),
                         RatDiv(parseInt(hoursMinutes[1][5]), 60)))
        ELSE IF hoursOnly # null
        THEN Some(RatAdd(parseInt(hoursOnly[1][1]), RatDiv(Rat(0, 1), 60)))
        ELSE IF minutesMatch # null
        THEN Some(RatDiv(parseInt(minutesMatch[1][1]), 60))
        ELSE IF colonFormat # null
        THEN Some(RatAdd(parseInt(colonFormat[1][1]),
                         RatDiv(parseInt(colonFormat[1][3]), 60)))
        ELSE IF decimal # null
        THEN decimal
        ELSE null

----------------------------------------------------------------------------
(* Specification SpecParse: parseDuration applied to the texts a user types *)

\* What one keystroke sequence adds to the text.
Pieces ==
    {<<"5">>, <<"3", "0">>, <<" ", "3", "0">>, <<".">>, <<":">>, <<" ">>, <<"-">>,
     <<"d">>, <<"h">>, <<"m">>, <<"H", "o", "u", "r", "s">>, <<"a", "b", "c">>}

InitParse ==
    /\ stops = <<>>
    /\ startDateTime = 0
    /\ calculatedStops = <<>>
    /\ pc = "idle"
    /\ currentTime = 0
    /\ i = 0
    /\ memo = null
    /\ text = <<>>
    /\ typed = 0
    /\ hours = null
    /\ useDays = TRUE
    /\ parsedBack = null
    /\ lookups = {}
    /\ nextId = 1
    /\ edits = 0
    /\ user = null
    /\ password = null
    /\ authHeader = null
    /\ response = null
    /\ segments = null
    /\ tripName = "My Road Trip"
    /\ exported = null
    /\ shared = null

\* The number of digits in a text.
DigitCount(s) == Cardinality({k \in 1..Len(s) : s[k] \in Digit})

\* The user types into the duration field.
Type ==
    /\ pc = "idle"
    /\ typed < MaxTyped
    /\ \E piece \in Pieces :
          /\ DigitCount(text \o piece) <= MaxDigits
          /\ text' = text \o piece
    /\ typed' = typed + 1
    /\ UNCHANGED <<stops, startDateTime, calculatedStops, pc, currentTime, i, memo, hours>>
    /\ UNCHANGED <<formatVars, mapVars, shareVars, authVars, storeVars>>

\* const hours = parseDuration(value)
Parse ==
    /\ pc = "idle"
    /\ hours' = parseDuration(text)
    /\ pc' = "done"
    /\ UNCHANGED <<stops, startDateTime, calculatedStops, currentTime, i, memo, text, typed>>
    /\ UNCHANGED <<formatVars, mapVars, shareVars, authVars, storeVars>>

NextParse == Type \/ Parse

SpecParse == InitParse /\ [][NextParse]_vars

----------------------------------------------------------------------------
(* lib/timeCalculations.ts: formatDuration *)

\* Math.floor
Floor(x) == x.num \div x.den

\* A Math.round that drops the fraction.
Round_Truncating(x) == x.num \div x.den

\* Math.round: the nearest integer, a half rounding up
Round(x) == (2 * x.num + x.den) \div (2 * x.den)

\* x - k for an integer k
RatSub(x, k) == Rat(x.num - k * x.den, x.den)

\* x % k for x >= 0 and an integer k > 0
Remainder(x, k) == Rat(x.num % (k * x.den), x.den)

\* x >= k for an integer k
AtLeast(x, k) == x.num >= k * x.den

\* `${n}` for an integer n
RECURSIVE NumberToString(_)
NumberToString(n) ==
    IF n < 0 THEN <<"-">> \o NumberToString(0 - n)
    ELSE IF n < 10 THEN <<DigitChars[n + 1]>>
    ELSE NumberToString(n \div 10) \o <<DigitChars[(n % 10) + 1]>>

\* formatDuration(hours, useDays)
formatDuration(h, inDays) ==
    IF inDays /\ AtLeast(h, 24)
    THEN LET days == Floor(RatDiv(h, 24))
             remainingHours == Remainder(h, 24)
         IN  IF remainingHours = Rat(0, 1)
             THEN NumberToString(days) \o <<"d">>
             ELSE NumberToString(days) \o <<"d", " ">> \o NumberToString(Round(remainingHours)) \o <<"h">>
    ELSE LET wholeHours == Floor(h)
             minutes == Round(RatMul(RatSub(h, wholeHours), 60))
         IN  IF wholeHours = 0
             THEN NumberToString(minutes) \o <<"m">>
             ELSE IF minutes = 0
             THEN NumberToString(wholeHours) \o <<"h">>
             ELSE NumberToString(wholeHours) \o <<"h", " ">> \o NumberToString(minutes) \o <<"m">>

----------------------------------------------------------------------------
(* Specification SpecFormat: formatDuration applied to durations that are a   *)
(* whole number of minutes, or a whole number of hours plus a fraction that a *)
(* double holds exactly enough for the rounding to be the exact one           *)

\* What a duration is lengthened by: a minute, an hour, a day.
Steps == {Rat(1, 60), Rat(1, 1), Rat(24, 1)}

\* Fractions of an hour added to a whole number of hours: 7.5 and 22.5 minutes
\* (a half rounds up) and 59.94 minutes (rounds to 60).
Nudges == {Rat(1, 8), Rat(3, 8), Rat(999, 1000)}

InitFormat ==
    /\ stops = <<>>
    /\ startDateTime = 0
    /\ calculatedStops = <<>>
    /\ pc = "idle"
    /\ currentTime = 0
    /\ i = 0
    /\ memo = null
    /\ text = <<>>
    /\ typed = 0
    /\ hours = Some(Rat(0, 1))
    /\ useDays \in BOOLEAN
    /\ parsedBack = null
    /\ lookups = {}
    /\ nextId = 1
    /\ edits = 0
    /\ user = null
    /\ password = null
    /\ authHeader = null
    /\ response = null
    /\ segments = null
    /\ tripName = "My Road Trip"
    /\ exported = null
    /\ shared = null

\* The duration to format grows by a minute, an hour or a day.
Lengthen ==
    /\ pc = "idle"
    /\ 60 % hours[1].den = 0
    /\ \E step \in Steps :
          /\ ~AtLeast(RatAdd(hours[1], step), MaxFormatHours)
          /\ hours' = Some(RatAdd(hours[1], step))
    /\ UNCHANGED <<stops, startDateTime, calculatedStops, pc, currentTime, i, memo, text, typed>>
    /\ UNCHANGED <<formatVars, mapVars, shareVars, authVars, storeVars>>

\* A whole number of hours gets a fraction of an hour.
Nudge ==
    /\ pc = "idle"
    /\ hours[1].den = 1
    /\ \E nudge \in Nudges : hours' = Some(RatAdd(hours[1], nudge))
    /\ UNCHANGED <<stops, startDateTime, calculatedStops, pc, currentTime, i, memo, text, typed>>
    /\ UNCHANGED <<formatVars, mapVars, shareVars, authVars, storeVars>>

\* text = formatDuration(hours, useDays)
Format ==
    /\ pc = "idle"
    /\ text' = formatDuration(hours[1], useDays)
    /\ pc' = "done"
    /\ UNCHANGED <<stops, startDateTime, calculatedStops, currentTime, i, memo, typed, hours>>
    /\ UNCHANGED <<formatVars, mapVars, shareVars, authVars, storeVars>>

\* parseDuration(text), of the text formatDuration returned
ParseBack ==
    /\ pc = "done"
    /\ parsedBack' = parseDuration(text)
    /\ pc' = "parsed"
    /\ UNCHANGED <<stops, startDateTime, calculatedStops, currentTime, i, memo, text, typed, hours>>
    /\ UNCHANGED <<useDays, mapVars, shareVars, authVars, storeVars>>

NextFormat == Lengthen \/ Nudge \/ Format \/ ParseBack

SpecFormat == InitFormat /\ [][NextFormat]_vars

----------------------------------------------------------------------------
(* context/TripContext.tsx: the operations of the store, on the stop list *)

\* addStop(stopData), with the id uuidv4() returns
addStop(stopList, stopData, id) ==
    Append(stopList,
           [id |-> id, driveTimeFromPrevious |-> null, manualDepartureTime |-> null]
               @@ stopData)

\* updateStop(id, updates)
updateStop(stopList, id, updates) ==
    [k \in DOMAIN stopList |->
        IF stopList[k].id = id THEN updates @@ stopList[k] ELSE stopList[k]]

\* removeStop(id)
removeStop(stopList, id) == SelectSeq(stopList, LAMBDA stop : stop.id # id)

\* array.splice(index, 1) and array.splice(index, 0, item), index from 0
SpliceOut(array, index) ==
    SubSeq(array, 1, index) \o SubSeq(array, index + 2, Len(array))

SpliceIn(array, index, item) ==
    SubSeq(array, 1, index) \o <<item>> \o SubSeq(array, index + 1, Len(array))

\* A reorderStops that swaps the two stops.
reorderStops_Swap(stopList, fromIndex, toIndex) ==
    [k \in DOMAIN stopList |->
        [driveTimeFromPrevious |-> null] @@
            (IF k = fromIndex + 1 THEN stopList[toIndex + 1]
             ELSE IF k = toIndex + 1 THEN stopList[fromIndex + 1]
             ELSE stopList[k])]

\* reorderStops(fromIndex, toIndex), for indices of the list
reorderStops(stopList, fromIndex, toIndex) ==
    LET removed == stopList[fromIndex + 1]
        newStops == SpliceIn(SpliceOut(stopList, fromIndex), toIndex, removed)
    IN  [k \in DOMAIN newStops |-> [driveTimeFromPrevious |-> null] @@ newStops[k]]

\* updateDriveTime(id, driveTime)
updateDriveTime(stopList, id, driveTime) ==
    [k \in DOMAIN stopList |->
        IF stopList[k].id = id
        THEN [driveTimeFromPrevious |-> driveTime] @@ stopList[k]
        ELSE stopList[k]]

\* A provider that computes the itinerary again only when the number of stops
\* has changed.
Render_OnLengthChange ==
    calculatedStops' = IF Len(stops') = Len(stops)
                       THEN calculatedStops
                       ELSE calculateItinerary(stops', startDateTime')

\* const calculatedStops = calculateItinerary(stops, startDateTime), on every
\* render of the provider
Render == calculatedStops' = calculateItinerary(stops', startDateTime')

----------------------------------------------------------------------------
(* components/TripItinerary.tsx: the drive-time lookups of the table *)

\* What calculateDrivingDistance answers for a leg: durationHours, a function
\* of the two places (their lat and lng).
DrivingHours(origin, dest) ==
    IF origin = dest THEN 0 ELSE 900 * (4 * (origin % 100) + (dest % 100))

\* One run of the recalculateDriveTimes effect: the legs it looks up, one after
\* the other, all read from the stop list of the render that started it (the
\* stops at index >= 1 whose driveTimeFromPrevious is null there).
EffectRun(stopList) ==
    LET legs == [k \in 1..(Len(stopList) - 1) |->
                    [id |-> stopList[k + 1].id,
                     origin |-> stopList[k].placeId,
                     dest |-> stopList[k + 1].placeId,
                     wanted |-> stopList[k + 1].driveTimeFromPrevious = null]]
    IN  SelectSeq(legs, LAMBDA leg : leg.wanted)

\* An effect that runs only when the number of stops has changed (the
\* dependency stops.length alone).
Effect_OnLengthChange(running, stopList) ==
    IF Len(stopList) = Len(stops) \/ EffectRun(stopList) = <<>>
    THEN running
    ELSE running \cup {EffectRun(stopList)}

\* The effect runs after every render with a new stop list; a run with no leg
\* to look up ends at once.
Effect(running, stopList) ==
    IF EffectRun(stopList) = <<>> THEN running ELSE running \cup {EffectRun(stopList)}

\* A run goes on to its next leg once the lookup it awaits has answered.
Resume(run) == IF Tail(run) = <<>> THEN {} ELSE {Tail(run)}

----------------------------------------------------------------------------
(* Specification SpecStore: the store and the itinerary table, driven by the *)
(* user and by the answers of the drive-time lookups                          *)

\* The place selected for the n-th stop added: each one a place of its own.
Selected(n) == [placeId |-> 100 + n, name |-> IF n % 2 = 1 THEN "odd" ELSE "even"]

\* What the user types into the time-at-destination field.
EditTexts == {<<"2", "h">>, <<"a", "b", "c">>, <<"-", "1">>}

\* The departure time the user sets by hand.
ManualEdits == {null, Some(36000)}

\* A number of hours as the number of seconds the model counts durations in.
Seconds(h) == (h.num * 3600) \div h.den

\* A trip file to import.
TripFile ==
    [startDateTime |-> 28800,
     stops |-> <<[id |-> 8, timeAtDestination |-> 3600, notes |-> "",
                  driveTimeFromPrevious |-> null, manualDepartureTime |-> null] @@ Selected(8),
                 [id |-> 9, timeAtDestination |-> 1800, notes |-> "",
                  driveTimeFromPrevious |-> Some(DrivingHours(108, 109)),
                  manualDepartureTime |-> Some(36000)] @@ Selected(9)>>]

Ids(stopList) == {stopList[k].id : k \in DOMAIN stopList}

InitStore ==
    /\ stops = <<>>
    /\ startDateTime = 28800
    /\ calculatedStops = <<>>
    /\ pc = "idle"
    /\ currentTime = 0
    /\ i = 0
    /\ memo = null
    /\ text = <<>>
    /\ typed = 0
    /\ hours = null
    /\ useDays = TRUE
    /\ parsedBack = null
    /\ lookups = {}
    /\ nextId = 1
    /\ edits = 0
    /\ user = null
    /\ password = null
    /\ authHeader = null
    /\ response = null
    /\ segments = null
    /\ tripName = "My Road Trip"
    /\ exported = null
    /\ shared = null

\* The user makes a change, other than adding a stop, when few lookups run.
Edit ==
    /\ edits < MaxEdits
    /\ Cardinality(lookups) < MaxLookups
    /\ edits' = edits + 1

\* handlePlaceSelect(place): addStop with one hour at the destination
HandlePlaceSelect ==
    /\ nextId <= MaxCreated
    /\ Cardinality(lookups) < MaxLookups
    /\ UNCHANGED edits
    /\ stops' = addStop(stops,
                        [timeAtDestination |-> 3600, notes |-> "",
                         manualDepartureTime |-> null] @@ Selected(nextId),
                        nextId)
    /\ nextId' = nextId + 1
    /\ lookups' = Effect(lookups, stops')
    /\ UNCHANGED <<startDateTime, pc, currentTime, i, memo, text, typed, hours, formatVars, mapVars, shareVars, authVars>>
    /\ Render

\* A time-at-destination edit that stores 0 for a text that does not parse.
TimeAtDestChange_CoercedToZero(stopList, id, parsed) ==
    updateStop(stopList, id,
               [timeAtDestination |-> IF parsed = null THEN 0 ELSE Seconds(parsed[1])])

\* if (hours !== null) updateStop(id, { timeAtDestination: hours })
TimeAtDestChange(stopList, id, parsed) ==
    IF parsed # null
    THEN updateStop(stopList, id, [timeAtDestination |-> Seconds(parsed[1])])
    ELSE stopList

\* handleTimeAtDestChange(id, value)
HandleTimeAtDestChange ==
    /\ Edit
    /\ \E id \in Ids(stops), value \in EditTexts :
          /\ text' = value
          /\ hours' = parseDuration(value)
          /\ stops' = TimeAtDestChange(stops, id, hours')
          /\ lookups' = IF hours' # null THEN Effect(lookups, stops') ELSE lookups
    /\ UNCHANGED <<startDateTime, pc, currentTime, i, memo, typed, formatVars, mapVars, shareVars, authVars, nextId>>
    /\ Render

\* updateStop(stop.id, { manualDepartureTime: ... }), set or cleared
HandleManualDeparture ==
    /\ Edit
    /\ \E id \in Ids(stops), m \in ManualEdits :
          stops' = updateStop(stops, id, [manualDepartureTime |-> m])
    /\ lookups' = Effect(lookups, stops')
    /\ UNCHANGED <<startDateTime, pc, currentTime, i, memo, text, typed, hours, formatVars, mapVars, shareVars, authVars, nextId>>
    /\ Render

\* removeStop(stop.id)
RemoveStop ==
    /\ Edit
    /\ \E id \in Ids(stops) : stops' = removeStop(stops, id)
    /\ lookups' = Effect(lookups, stops')
    /\ UNCHANGED <<startDateTime, pc, currentTime, i, memo, text, typed, hours, formatVars, mapVars, shareVars, authVars, nextId>>
    /\ Render

\* handleDrop(e, index): reorderStops(draggedIndex, index)
HandleDrop ==
    /\ Edit
    /\ \E draggedIndex, index \in 0..(Len(stops) - 1) :
          /\ draggedIndex # index
          /\ stops' = reorderStops(stops, draggedIndex, index)
    /\ lookups' = Effect(lookups, stops')
    /\ UNCHANGED <<startDateTime, pc, currentTime, i, memo, text, typed, hours, formatVars, mapVars, shareVars, authVars, nextId>>
    /\ Render

\* clearAllStops()
ClearAllStops ==
    /\ Edit
    /\ stops # <<>>
    /\ stops' = <<>>
    /\ lookups' = Effect(lookups, stops')
    /\ UNCHANGED <<startDateTime, pc, currentTime, i, memo, text, typed, hours, formatVars, mapVars, shareVars, authVars, nextId>>
    /\ Render

\* setStartDateTime(new Date(e.target.value))
SetStartDateTime ==
    /\ Edit
    /\ \E start \in StartTimes \ {startDateTime} : startDateTime' = start
    /\ UNCHANGED stops
    /\ UNCHANGED <<pc, currentTime, i, memo, text, typed, hours, formatVars, mapVars, shareVars, authVars, lookups, nextId>>
    /\ Render

\* importTrip(file)
ImportTrip ==
    /\ Edit
    /\ startDateTime' = TripFile.startDateTime
    /\ stops' = TripFile.stops
    /\ lookups' = Effect(lookups, stops')
    /\ UNCHANGED <<pc, currentTime, i, memo, text, typed, hours, formatVars, mapVars, shareVars, authVars, nextId>>
    /\ Render

\* A lookup answers: updateDriveTime(stopId, result.durationHours), and the run
\* that awaited it goes on.
LookupAnswered ==
    /\ \E run \in lookups :
          /\ stops' = updateDriveTime(stops, Head(run).id,
                                      Some(DrivingHours(Head(run).origin, Head(run).dest)))
          /\ lookups' = Effect((lookups \ {run}) \cup Resume(run), stops')
    /\ UNCHANGED <<startDateTime, pc, currentTime, i, memo, text, typed, hours, formatVars, mapVars, shareVars, authVars, nextId, edits>>
    /\ Render

\* A lookup fails (result is null): nothing is stored, and the run goes on.
LookupFailed ==
    /\ \E run \in lookups : lookups' = (lookups \ {run}) \cup Resume(run)
    /\ UNCHANGED <<stops, startDateTime, calculatedStops, pc, currentTime, i, memo, text, typed,
                   hours, formatVars, mapVars, shareVars, authVars, nextId, edits>>

NextStore ==
    \/ HandlePlaceSelect
    \/ HandleTimeAtDestChange
    \/ HandleManualDeparture
    \/ RemoveStop
    \/ HandleDrop
    \/ ClearAllStops
    \/ SetStartDateTime
    \/ ImportTrip
    \/ LookupAnswered
    \/ LookupFailed

SpecStore == InitStore /\ [][NextStore]_vars

----------------------------------------------------------------------------
(* Specification SpecSettle: the user adds and reorders stops, and every      *)
(* drive-time lookup is answered                                              *)

NextSettle ==
    \/ HandlePlaceSelect
    \/ HandleDrop
    \/ LookupAnswered

\* A lookup under way is answered in the end.
SpecSettle == InitStore /\ [][NextSettle]_vars /\ WF_vars(LookupAnswered)

----------------------------------------------------------------------------
(* middleware.ts: HTTP Basic authentication *)

\* The 64 characters of base64, by value.
Base64Chars ==
    <<"A", "B", "C", "D", "E", "F", "G", "H", "I", "J", "K", "L", "M", "N", "O", "P",
      "Q", "R", "S", "T", "U", "V", "W", "X", "Y", "Z", "a", "b", "c", "d", "e", "f",
      "g", "h", "i", "j", "k", "l", "m", "n", "o", "p", "q", "r", "s", "t", "u", "v",
      "w", "x", "y", "z", "0", "1", "2", "3", "4", "5", "6", "7", "8", "9", "+", "/">>

Base64Value(c) == (CHOOSE k \in 1..64 : Base64Chars[k] = c) - 1

\* The character codes of the characters credentials are written with.
CharCodes == (":" :> 58) @@ ("p" :> 112) @@ ("u" :> 117) @@ ("x" :> 120)

\* A string as the sequence of its character codes.
Codes(s) == [k \in 1..Len(s) |-> CharCodes[s[k]]]

\* btoa, on character codes: three bytes make four characters, padded with "=".
RECURSIVE btoa(_)
btoa(bytes) ==
    IF bytes = <<>> THEN <<>>
    ELSE LET b1 == bytes[1]
             b2 == IF Len(bytes) >= 2 THEN bytes[2] ELSE 0
             b3 == IF Len(bytes) >= 3 THEN bytes[3] ELSE 0
             c1 == Base64Chars[(b1 \div 4) + 1]
             c2 == Base64Chars[((b1 % 4) * 16 + b2 \div 16) + 1]
             c3 == Base64Chars[((b2 % 16) * 4 + b3 \div 64) + 1]
             c4 == Base64Chars[(b3 % 64) + 1]
         IN  IF Len(bytes) = 1 THEN <<c1, c2, "=", "=">>
             ELSE IF Len(bytes) = 2 THEN <<c1, c2, c3, "=">>
             ELSE <<c1, c2, c3, c4>> \o btoa(SubSeq(bytes, 4, Len(bytes)))

\* The bytes a run of base64 characters holds; bits left over are dropped.
RECURSIVE DecodeGroups(_)
DecodeGroups(data) ==
    IF Len(data) < 2 THEN <<>>
    ELSE LET v1 == Base64Value(data[1])
             v2 == Base64Value(data[2])
             v3 == IF Len(data) >= 3 THEN Base64Value(data[3]) ELSE 0
             v4 == IF Len(data) >= 4 THEN Base64Value(data[4]) ELSE 0
             b1 == v1 * 4 + v2 \div 16
             b2 == (v2 % 16) * 16 + v3 \div 4
             b3 == (v3 % 4) * 64 + v4
         IN  IF Len(data) = 2 THEN <<b1>>
             ELSE IF Len(data) = 3 THEN <<b1, b2>>
             ELSE <<b1, b2, b3>> \o DecodeGroups(SubSeq(data, 5, Len(data)))

\* atob(encoded): the character codes of the decoded string; null when atob
\* throws (InvalidCharacterError).
atob(encoded) ==
    LET spaceless == SelectSeq(encoded, LAMBDA c : c \notin WhiteSpace)
        n == Len(spaceless)
        padding == IF n % 4 = 0 /\ n > 0 /\ spaceless[n] = "="
                   THEN IF spaceless[n - 1] = "=" THEN 2 ELSE 1
                   ELSE 0
        data == SubSeq(spaceless, 1, n - padding)
    IN  IF Len(data) % 4 = 1 \/ \E k \in 1..Len(data) : \A v \in 1..64 : Base64Chars[v] # data[k]
        THEN null
        ELSE Some(DecodeGroups(data))

\* string.split(separator), for a separator of one character (or one code)
RECURSIVE Split(_, _)
Split(s, separator) ==
    IF \E k \in 1..Len(s) : s[k] = separator
    THEN LET at == CHOOSE k \in 1..Len(s) : s[k] = separator /\ \A h \in 1..(k - 1) : s[h] # separator
         IN  <<SubSeq(s, 1, at - 1)>> \o Split(SubSeq(s, at + 1, Len(s)), separator)
    ELSE <<s>>

\* const [first, second] = array: an element the array does not have is
\* undefined (null here)
Element(array, k) == IF k <= Len(array) THEN Some(array[k]) ELSE null

\* A falsy string: undefined or empty
Falsy(string) == string = null \/ string = Some(<<>>)

\* middleware(request): "next" for NextResponse.next(), "401" for the
\* 'Authentication required' response, "throws" when atob throws
middleware(envUser, envPassword, header) ==
    IF Falsy(envUser) \/ Falsy(envPassword)
    THEN "next"
    ELSE IF ~Falsy(header)
            /\ LET parts == Split(header[1], " ")
                   scheme == Element(parts, 1)
                   encoded == Element(parts, 2)
               IN  scheme = Some(<<"B", "a", "s", "i", "c">>) /\ ~Falsy(encoded)
    THEN LET encoded == Split(header[1], " ")[2]
             decoded == atob(encoded)
         IN  IF decoded = null
             THEN "throws"
             ELSE LET credentials == Split(decoded[1], 58)
                      authUser == Element(credentials, 1)
                      authPass == Element(credentials, 2)
                  IN  IF authUser = Some(Codes(envUser[1])) /\ authPass = Some(Codes(envPassword[1]))
                      THEN "next"
                      ELSE "401"
    ELSE "401"

----------------------------------------------------------------------------
(* Specification SpecAuth: requests to a deployment with or without the      *)
(* BASIC_AUTH_USER and BASIC_AUTH_PASSWORD variables                          *)

\* The values the two variables are deployed with: not set, empty, or a name
\* and a password, one of them with a colon in it.
UserValues == {null, Some(<<>>), Some(<<"u">>)}

PasswordValues == {null, Some(<<>>), Some(<<"p">>), Some(<<"p", ":", "x">>)}

\* The scheme word a client writes.
Schemes == {<<"B", "a", "s", "i", "c">>, <<"b", "a", "s", "i", "c">>,
            <<"B", "e", "a", "r", "e", "r">>}

\* What a client puts after the scheme: nothing, the base64 of its
\* credentials (with more after it, or after two spaces), or text that
\* is not base64.
Tails(credentials) ==
    {<<>>,
     <<" ">> \o btoa(Codes(credentials)),
     <<" ">> \o btoa(Codes(credentials)) \o <<" ", "x">>,
     <<" ", " ">> \o btoa(Codes(credentials)),
     <<" ", "!", "!">>}

InitAuth ==
    /\ stops = <<>>
    /\ startDateTime = 0
    /\ calculatedStops = <<>>
    /\ pc = "idle"
    /\ currentTime = 0
    /\ i = 0
    /\ memo = null
    /\ text = <<>>
    /\ typed = 0
    /\ hours = null
    /\ useDays = TRUE
    /\ parsedBack = null
    /\ lookups = {}
    /\ nextId = 1
    /\ edits = 0
    /\ user \in UserValues
    /\ password \in PasswordValues
    /\ authHeader = null
    /\ response = null
    /\ segments = null
    /\ tripName = "My Road Trip"
    /\ exported = null
    /\ shared = null

\* The client types the credentials it will send.
TypeCredentials ==
    /\ pc = "idle"
    /\ typed < MaxCredentials
    /\ \E c \in DOMAIN CharCodes : text' = Append(text, c)
    /\ typed' = typed + 1
    /\ UNCHANGED <<stops, startDateTime, calculatedStops, pc, currentTime, i, memo, hours>>
    /\ UNCHANGED <<formatVars, mapVars, shareVars, storeVars, authVars>>

\* A request arrives, with or without an Authorization header.
Request ==
    /\ pc = "idle"
    /\ \/ authHeader' = null
       \/ \E scheme \in Schemes, tail \in Tails(text) : authHeader' = Some(scheme \o tail)
    /\ response' = middleware(user, password, authHeader')
    /\ pc' = "done"
    /\ UNCHANGED <<stops, startDateTime, calculatedStops, currentTime, i, memo, text, typed, hours>>
    /\ UNCHANGED <<formatVars, mapVars, shareVars, storeVars, user, password>>

NextAuth == TypeCredentials \/ Request

SpecAuth == InitAuth /\ [][NextAuth]_vars

----------------------------------------------------------------------------
(* The totals of the trip summary and of the PDF *)

\* calculatedStops.reduce((sum, stop) => sum + (stop.driveTimeFromPrevious || 0), 0)
RECURSIVE TotalDriveTime(_)
TotalDriveTime(out) ==
    IF out = <<>>
    THEN 0
    ELSE TotalDriveTime(SubSeq(out, 1, Len(out) - 1))
         + Coalesce(out[Len(out)].driveTimeFromPrevious, 0)

----------------------------------------------------------------------------
(* Specification SpecPatient: the user adds, removes and drags stops, and waits
   for every drive-time lookup to end before the next operation *)

Idle == lookups = {}

AddWhenIdle == Idle /\ HandlePlaceSelect

RemoveWhenIdle == Idle /\ RemoveStop

DropWhenIdle == Idle /\ HandleDrop

NextPatient ==
    \/ AddWhenIdle
    \/ RemoveWhenIdle
    \/ DropWhenIdle
    \/ LookupAnswered
    \/ LookupFailed

SpecPatient == InitStore /\ [][NextPatient]_vars

----------------------------------------------------------------------------
(* Share links and trip files (compressTrip, decompressTrip, exportTrip,
   importTrip).  A Date written as text is [iso |-> t]; the payload of a link
   is the ShareData object: JSON.stringify, encodeURIComponent and btoa on the
   way out are undone by atob, decodeURIComponent and JSON.parse on the way
   in, and the positions of a place are carried by its placeId. *)

MaxLoaded == 2

TripNames == {"", "My Road Trip", "Alps"}

\* date.toISOString() and new Date(text)
toISOString(date) == [iso |-> date]

NewDate(isoText) == isoText.iso

\* The store as the three values export and sharing read.
Trip(name, start, stopList) ==
    [tripName |-> name, startDateTime |-> start, stops |-> stopList]

\* compressTrip(tripName, startDateTime, stops): the fields of CompactStop
compressTrip(name, start, stopList) ==
    [n |-> name,
     st |-> toISOString(start),
     sp |-> [k \in 1..Len(stopList) |->
                [p |-> stopList[k].placeId,
                 n |-> stopList[k].name,
                 t |-> stopList[k].timeAtDestination,
                 d |-> stopList[k].driveTimeFromPrevious,
                 nt |-> stopList[k].notes]]]

\* decompressTrip(encoded); uuidv4() gives the ids firstId, firstId + 1, ...
decompressTrip(data, firstId) ==
    Trip(data.n,
         NewDate(data.st),
         [k \in 1..Len(data.sp) |->
            [id |-> firstId + k - 1,
             placeId |-> data.sp[k].p,
             name |-> data.sp[k].n,
             timeAtDestination |-> data.sp[k].t,
             driveTimeFromPrevious |-> data.sp[k].d,
             notes |-> data.sp[k].nt,
             manualDepartureTime |-> null]])

\* exportTrip(): the object written to the file
exportTrip(name, start, stopList) ==
    [tripName |-> name,
     startDateTime |-> toISOString(start),
     stops |-> [k \in 1..Len(stopList) |->
                  [manualDepartureTime |->
                      IF stopList[k].manualDepartureTime = null
                      THEN null
                      ELSE Some(toISOString(stopList[k].manualDepartureTime[1]))]
                  @@ stopList[k]]]

\* importTrip(file) on a store that holds current: a field of the file that is
\* falsy (the empty tripName) leaves the store's value as it is.
importTrip(data, current) ==
    Trip(IF data.tripName # "" THEN data.tripName ELSE current.tripName,
         NewDate(data.startDateTime),
         [k \in 1..Len(data.stops) |->
            [manualDepartureTime |->
                IF data.stops[k].manualDepartureTime # null
                THEN Some(NewDate(data.stops[k].manualDepartureTime[1]))
                ELSE null]
            @@ data.stops[k]])

----------------------------------------------------------------------------
(* Specification SpecShare: a trip is edited, exported and imported again, and
   shared by link and loaded from the link *)

\* setTripName(e.target.value)
SetTripName ==
    /\ Edit
    /\ \E name \in TripNames \ {tripName} : tripName' = name
    /\ UNCHANGED <<stops, startDateTime, calculatedStops, pc, currentTime, i, memo, text, typed,
                   hours, formatVars, mapVars, authVars, lookups, nextId, exported, shared>>

\* exportTrip()
ExportTrip ==
    /\ exported = null
    /\ shared = null
    /\ exported' = Some(exportTrip(tripName, startDateTime, stops))
    /\ UNCHANGED <<stops, startDateTime, calculatedStops, pc, currentTime, i, memo, text, typed,
                   hours, formatVars, mapVars, authVars, storeVars, tripName, shared>>

\* importTrip(file), of the file exported before
ImportExported ==
    /\ exported # null
    /\ Cardinality(lookups) < MaxLookups
    /\ \E trip \in {importTrip(exported[1], Trip(tripName, startDateTime, stops))} :
          /\ tripName' = trip.tripName
          /\ startDateTime' = trip.startDateTime
          /\ stops' = trip.stops
    /\ lookups' = Effect(lookups, stops')
    /\ UNCHANGED <<pc, currentTime, i, memo, text, typed, hours, formatVars, mapVars, authVars,
                   nextId, edits, exported, shared>>
    /\ Render

\* generateShareLink()
GenerateShareLink ==
    /\ exported = null
    /\ shared = null
    /\ shared' = Some(compressTrip(tripName, startDateTime, stops))
    /\ UNCHANGED <<stops, startDateTime, calculatedStops, pc, currentTime, i, memo, text, typed,
                   hours, formatVars, mapVars, authVars, storeVars, tripName, exported>>

\* The page is opened with the link: the provider starts from its initial
\* state, takes the trip from the hash and clears the hash.
LoadShareLink ==
    /\ shared # null
    /\ nextId + Len(shared[1].sp) <= MaxCreated + MaxLoaded + 1
    /\ \E trip \in {decompressTrip(shared[1], nextId)} :
          /\ tripName' = trip.tripName
          /\ startDateTime' = trip.startDateTime
          /\ stops' = trip.stops
    /\ nextId' = nextId + Len(shared[1].sp)
    /\ shared' = null
    /\ lookups' = Effect({}, stops')
    /\ UNCHANGED <<pc, currentTime, i, memo, text, typed, hours, formatVars, mapVars, authVars,
                   edits, exported>>
    /\ Render

NextShare ==
    \/ HandlePlaceSelect
    \/ HandleManualDeparture
    \/ SetTripName
    \/ LookupAnswered
    \/ ExportTrip
    \/ ImportExported
    \/ GenerateShareLink
    \/ LoadShareLink

SpecShare == InitStore /\ [][NextShare]_vars

----------------------------------------------------------------------------
(* The map's route segments (buildSegments) *)

MaxMapStops == 5

\* travelType: 'drive' | 'fly'; "undefined": a stop built without the field
TravelTypes == {"drive", "fly", "undefined"}

\* A variant that draws a leg as a drive only when its stop says 'drive'.
LegType_MissingIsFly(stop) ==
    IF stop.travelType = "drive" THEN "drive" ELSE "fly"

\* const legType = stops[i].travelType === 'fly' ? 'fly' : 'drive'
LegType(stop) ==
    IF stop.travelType = "fly" THEN "fly" ELSE "drive"

\* The body of the loop, for the leg that ends at the 0-based index k.
PushLeg(segs, k, legType) ==
    IF legType = "fly"
    THEN Append(segs, [type |-> "fly", stopIndices |-> <<k - 1, k>>])
    ELSE IF Len(segs) > 0 /\ segs[Len(segs)].type = "drive"
         THEN [segs EXCEPT ![Len(segs)].stopIndices = Append(@, k)]
         ELSE Append(segs, [type |-> "drive", stopIndices |-> <<k - 1, k>>])

\* for (let i = 1; i < stops.length; i++): stops[k] is stopList[k + 1]
RECURSIVE SegmentsLoop(_, _, _)
SegmentsLoop(stopList, k, segs) ==
    IF k >= Len(stopList)
    THEN segs
    ELSE SegmentsLoop(stopList, k + 1, PushLeg(segs, k, LegType(stopList[k + 1])))

buildSegments(stopList) ==
    IF Len(stopList) < 2 THEN <<>> ELSE SegmentsLoop(stopList, 1, <<>>)

----------------------------------------------------------------------------
(* Specification SpecMap: the map draws the segments of every stop list *)

InitMap ==
    /\ stops = <<>>
    /\ startDateTime = 28800
    /\ calculatedStops = <<>>
    /\ pc = "idle"
    /\ currentTime = 0
    /\ i = 0
    /\ memo = null
    /\ text = <<>>
    /\ typed = 0
    /\ hours = null
    /\ useDays = TRUE
    /\ parsedBack = null
    /\ lookups = {}
    /\ nextId = 1
    /\ edits = 0
    /\ user = null
    /\ password = null
    /\ authHeader = null
    /\ response = null
    /\ segments = null
    /\ tripName = "My Road Trip"
    /\ exported = null
    /\ shared = null

\* The trip gets one more stop, reached by car, by plane, or without a travelType.
AddLeg ==
    /\ pc = "idle"
    /\ Len(stops) < MaxMapStops
    /\ \E t \in TravelTypes :
          stops' = Append(stops,
                          [travelType |-> t, timeAtDestination |-> 3600,
                           driveTimeFromPrevious |-> null, manualDepartureTime |-> null]
                          @@ Place(Len(stops) + 1))
    /\ UNCHANGED <<startDateTime, pc, currentTime, i, memo, text, typed, hours>>
    /\ UNCHANGED <<formatVars, mapVars, shareVars, authVars, storeVars>>
    /\ Render

\* const segments = buildSegments(calculatedStops)
BuildSegments ==
    /\ pc = "idle"
    /\ segments' = buildSegments(calculatedStops)
    /\ pc' = "done"
    /\ UNCHANGED <<stops, startDateTime, calculatedStops, currentTime, i, memo, text, typed, hours>>
    /\ UNCHANGED <<formatVars, shareVars, authVars, storeVars>>

NextMap == AddLeg \/ BuildSegments

SpecMap == InitMap /\ [][NextMap]_vars

----------------------------------------------------------------------------
(* Claims about calculateItinerary, checked under SpecCalc *)

Returned == pc = "done"

\* The stop list with the manualDepartureTime of the stop at position k set to m.
WithManual(k, m) == [stops EXCEPT ![k].manualDepartureTime = m]

\* The times of a result, stop by stop.  (A run compared with calculatedStops is
\* bound by a quantifier over a one-element set, which evaluates it once.)
Times(out) == [k \in 1..Len(out) |-> <<out[k].arrivalTime, out[k].departureTime>>]

\* C1: every stop at index >= 1 arrives at the departureTime reported for the
\* stop before it plus its own driveTimeFromPrevious hours, null counting as 0.
C1_ArrivalFromPreviousDeparture ==
    Returned =>
        \A k \in 2..Len(stops) :
            calculatedStops[k].arrivalTime =
                Some(addHours(calculatedStops[k - 1].departureTime,
                              Coalesce(stops[k].driveTimeFromPrevious, 0)))

C1_Witness ==
    /\ Returned
    /\ Len(stops) >= 3
    /\ stops[2].manualDepartureTime = Some(3600)
    /\ stops[3].driveTimeFromPrevious = Some(7200)
    /\ calculatedStops[3].arrivalTime = Some(10800)

\* C2: the departureTime of a stop is its manualDepartureTime when set, verbatim
\* even when earlier than the arrival; otherwise startDateTime at index 0 and
\* arrivalTime + timeAtDestination hours at every later index.
C2_DepartureOverrideOrComputed ==
    Returned =>
        \A k \in 1..Len(stops) :
            calculatedStops[k].departureTime =
                IF stops[k].manualDepartureTime # null
                THEN stops[k].manualDepartureTime[1]
                ELSE IF k = 1
                     THEN startDateTime
                     ELSE addHours(calculatedStops[k].arrivalTime[1],
                                   stops[k].timeAtDestination)

C2_Witness ==
    /\ Returned
    /\ Len(stops) >= 2
    /\ stops[2].manualDepartureTime = Some(3600)
    /\ calculatedStops[2].arrivalTime = Some(36000)
    /\ calculatedStops[2].departureTime = 3600

AllStaysNonNegative == \A k \in 1..Len(stops) : stops[k].timeAtDestination >= 0

\* C3 as stated: with every timeAtDestination non-negative, whatever the manual
\* overrides are, a stop that has an arrivalTime departs no earlier than it arrives.
C3_DepartureNotBeforeArrival ==
    (Returned /\ AllStaysNonNegative) =>
        \A k \in 2..Len(stops) :
            calculatedStops[k].departureTime >= calculatedStops[k].arrivalTime[1]

\* C3 amended: with every timeAtDestination non-negative, a stop that has an
\* arrivalTime and no manualDepartureTime departs no earlier than it arrives.
C3_ComputedDepartureNotBeforeArrival ==
    (Returned /\ AllStaysNonNegative) =>
        \A k \in 2..Len(stops) :
            stops[k].manualDepartureTime = null =>
                calculatedStops[k].departureTime >= calculatedStops[k].arrivalTime[1]

C3_Witness ==
    /\ Returned
    /\ AllStaysNonNegative
    /\ Len(stops) >= 3
    /\ stops[2].manualDepartureTime = Some(3600)
    /\ calculatedStops[2].arrivalTime = Some(36000)
    /\ stops[3].manualDepartureTime = null
    /\ stops[3].driveTimeFromPrevious = Some(7200)
    /\ stops[3].timeAtDestination = 5400
    /\ calculatedStops[3].departureTime = 16200

\* C4: in a non-empty result the stop at index 0, and no other, has no arrivalTime.
C4_OnlyFirstHasNoArrival ==
    (Returned /\ Len(stops) >= 1) =>
        {k \in 1..Len(calculatedStops) : calculatedStops[k].arrivalTime = null} = {1}

C4_Witness ==
    /\ Returned
    /\ Len(stops) >= 3
    /\ stops[2].driveTimeFromPrevious = null
    /\ stops[3].driveTimeFromPrevious = Some(7200)
    /\ calculatedStops[1].arrivalTime = null

\* C5 as stated: setting the manualDepartureTime of stop k, to a value other
\* than the departure computed for k without it, changes the arrivalTime and
\* the departureTime of every stop after k.
C5_OverrideChangesAllLater ==
    Returned =>
        \A k \in 1..Len(stops) : \A m \in OverrideValues \ {null} :
            (stops[k].manualDepartureTime = null
                /\ m[1] # calculatedStops[k].departureTime) =>
                \A set \in {calculateItinerary(WithManual(k, m), startDateTime)} :
                    \A j \in (k + 1)..Len(stops) :
                        /\ set[j].arrivalTime # calculatedStops[j].arrivalTime
                        /\ set[j].departureTime # calculatedStops[j].departureTime

\* The first stop after k that has a manualDepartureTime of its own
\* (Len(stops) + 1 when there is none).
NextOverride(k) ==
    LET later == {j \in (k + 1)..Len(stops) : stops[j].manualDepartureTime # null}
    IN  IF later = {} THEN Len(stops) + 1
        ELSE CHOOSE j \in later : \A h \in later : j <= h

\* C5 amended: the change moves the arrivalTime of every stop after k up to and
\* including the first later stop with a manualDepartureTime of its own, and the
\* departureTime of every stop after k before that one; that stop's departureTime
\* and every time after it stay as they were.
C5_OverrideChangesUntilNextOverride ==
    Returned =>
        \A k \in 1..Len(stops) : \A m \in OverrideValues \ {null} :
            (stops[k].manualDepartureTime = null
                /\ m[1] # calculatedStops[k].departureTime) =>
                \A set \in {calculateItinerary(WithManual(k, m), startDateTime)} :
                \A stop \in {NextOverride(k)} :
                    \A j \in (k + 1)..Len(stops) :
                        /\ (set[j].arrivalTime # calculatedStops[j].arrivalTime)
                               <=> (j <= stop)
                        /\ (set[j].departureTime # calculatedStops[j].departureTime)
                               <=> (j < stop)

C5_Witness ==
    /\ Returned
    /\ Len(stops) >= 4
    /\ stops[1].manualDepartureTime = null
    /\ stops[2].manualDepartureTime = null
    /\ stops[3].manualDepartureTime = Some(3600)
    /\ stops[4].manualDepartureTime = null
    /\ \E set \in {calculateItinerary(WithManual(1, Some(36000)), startDateTime)} :
           /\ set[2].departureTime # calculatedStops[2].departureTime
           /\ set[3].arrivalTime # calculatedStops[3].arrivalTime
           /\ set[3].departureTime = calculatedStops[3].departureTime
           /\ set[4].arrivalTime = calculatedStops[4].arrivalTime

\* C6: two runs that differ only in the manualDepartureTime of stop k give the
\* same arrivalTime to stop k and the same times to every stop before k.
C6_OverrideLeavesEarlierTimes ==
    Returned =>
        \A k \in 1..Len(stops) : \A m \in OverrideValues :
            \A other \in {calculateItinerary(WithManual(k, m), startDateTime)} :
                /\ other[k].arrivalTime = calculatedStops[k].arrivalTime
                /\ \A j \in 1..(k - 1) :
                        /\ other[j].arrivalTime = calculatedStops[j].arrivalTime
                        /\ other[j].departureTime = calculatedStops[j].departureTime

C6_Witness ==
    /\ Returned
    /\ Len(stops) >= 3
    /\ stops[3].manualDepartureTime = Some(3600)
    /\ calculateItinerary(WithManual(3, null), startDateTime)[3].departureTime
           # calculatedStops[3].departureTime
    /\ calculateItinerary(WithManual(3, null), startDateTime)[3].arrivalTime
           = calculatedStops[3].arrivalTime

\* C7: the result has the length and order of the input, and the computed stop at
\* each index carries every field of the input stop unchanged, adding only
\* arrivalTime and departureTime.
C7_SameStopsTwoFieldsAdded ==
    Returned =>
        /\ Len(calculatedStops) = Len(stops)
        /\ \A k \in 1..Len(stops) :
            /\ DOMAIN calculatedStops[k] = CalculatedStopFields
            /\ DOMAIN stops[k] = TripStopFields
            /\ \A f \in TripStopFields : calculatedStops[k][f] = stops[k][f]

C7_Witness ==
    /\ Returned
    /\ Len(stops) >= 2
    /\ stops[2].driveTimeFromPrevious = null
    /\ stops[2].manualDepartureTime = Some(3600)
    /\ calculatedStops[2].id = 2
    /\ calculatedStops[2].notes = "note"

\* The positions of the stops whose driveTimeFromPrevious is null.
Unresolved == {k \in 1..Len(stops) : stops[k].driveTimeFromPrevious = null}

\* The stop list with the null driveTimeFromPrevious of the stops in S replaced by 0.
WithZeroDriveTime(S) ==
    [k \in 1..Len(stops) |->
        IF k \in S
        THEN [stops[k] EXCEPT !.driveTimeFromPrevious = Some(0)]
        ELSE stops[k]]

\* C8: replacing any null driveTimeFromPrevious by 0 leaves every arrivalTime
\* and departureTime unchanged.
C8_NullDriveTimeIsZero ==
    Returned =>
        \A S \in SUBSET Unresolved :
            \A zeroed \in {calculateItinerary(WithZeroDriveTime(S), startDateTime)} :
                Times(zeroed) = Times(calculatedStops)

C8_Witness ==
    /\ Returned
    /\ Len(stops) >= 3
    /\ stops[2].driveTimeFromPrevious = null
    /\ stops[3].driveTimeFromPrevious = null
    /\ stops[2].manualDepartureTime = null
    /\ calculatedStops[3].arrivalTime # null

----------------------------------------------------------------------------
(* Claims about calculateItinerary, checked under SpecCalls *)

\* The statement-by-statement run returns what the folded loop gives.
ReturnsTheFold ==
    pc = "done" => calculatedStops = calculateItinerary(stops, startDateTime)

SameArgumentsAsRemembered ==
    /\ pc = "done"
    /\ memo # null
    /\ memo[1].stops = stops
    /\ memo[1].startDateTime = startDateTime

\* C9: a call returns what an earlier call with identical stops and
\* startDateTime returned, whatever calls were made in between, and no step of a
\* call changes the stop list or the start time it was given.
C9_SameArgumentsSameResult ==
    /\ [](SameArgumentsAsRemembered => calculatedStops = memo[1].result)
    /\ [][pc = "loop" => UNCHANGED <<stops, startDateTime>>]_vars

C9_Witness ==
    /\ SameArgumentsAsRemembered
    /\ Len(stops) = 2
    /\ stops[1].manualDepartureTime = Some(3600)
    /\ stops[2].driveTimeFromPrevious = Some(7200)
    /\ calculatedStops[2].departureTime = 16200
    /\ currentTime = 16200
    /\ i = 2

----------------------------------------------------------------------------
(* Claims about parseDuration, checked under SpecParse *)

Parsed == pc = "done"

\* The text as parseDuration matches it.
Trimmed == toLowerCase(trim(text))

\* The text is, in full, one of the seven forms: one of the six patterns, or
\* a plain decimal number (read generously: any decimal literal, signed or
\* not, that is the whole text).
Recognised ==
    \/ \E pattern \in {DaysPattern, DaysHoursPattern, HoursPattern, HoursMinutesPattern,
                       HoursOnlyPattern, MinutesPattern, ColonPattern} :
            Match(pattern, Trimmed) # null
    \/ parseFloat_WholeString(Trimmed) # null

\* C10: a text that is not, in full, one of the seven recognised forms gives
\* the no-match value.
C10_UnrecognisedTextGivesNoMatch ==
    (Parsed /\ ~Recognised) => hours = null

\* A decimal fraction: \d+\.\d+
Fractional == <<Rep(Digit, 1), Alt({<<".">>}), Rep(Digit, 1)>>

\* The forms with a fraction written in a field that takes an integer only: the
\* days of the days+hours form, the hours or the minutes of "Hh Mm", the
\* minutes of the minutes form, either field of the colon form.
FractionForms ==
    {<<Fractional, Spaces, <<Alt(DayWords)>>, SomeSpaces, Number, Spaces,
       <<Opt(<<Alt(HourWords)>>)>>>>,
     <<Fractional, Spaces, <<Alt({<<"h">>})>>, Spaces, Number, Spaces, <<Alt({<<"m">>})>>>>,
     <<Number, Spaces, <<Alt({<<"h">>})>>, Spaces, Fractional, Spaces, <<Alt({<<"m">>})>>>>,
     <<Fractional, Spaces, <<Alt(MinuteWords)>>>>,
     <<Fractional, <<Alt({<<":">>})>>, Number>>,
     <<Number, <<Alt({<<":">>})>>, Fractional>>}

FractionInIntegerField == \E form \in FractionForms : Match(form, Trimmed) # null

\* C11: a text with a decimal fraction in an integer-only field is not parsed
\* to a number of hours.
C11_FractionInIntegerFieldGivesNoMatch ==
    (Parsed /\ FractionInIntegerField) => hours = null

\* The number a decimal literal \d+(?:\.\d+)? denotes.
Decimal(lit) ==
    LET digits == SelectSeq(lit, LAMBDA c : c \in Digit)
        point == IF \E k \in 1..Len(lit) : lit[k] = "."
                 THEN CHOOSE k \in 1..Len(lit) : lit[k] = "."
                 ELSE Len(lit)
    IN  Rat(DigitsValue(digits), Pow10(Len(lit) - point))

\* The hours the first form, in the listed order, that the text matches in
\* full defines; null when the text matches no form.
FormHours(t) ==
    LET days == Match(DaysPattern, t)
        daysHours == Match(DaysHoursPattern, t)
        hoursForm == Match(HoursPattern, t)
        hoursMinutes == Match(HoursMinutesPattern, t)
        hoursOnly == Match(HoursOnlyPattern, t)
        minutes == Match(MinutesPattern, t)
        colon == Match(ColonPattern, t)
        plain == Match(<<Number>>, t)
        sixtieth(lit) == Rat(Decimal(lit).num, 60)
    IN  CASE days # null -> Some(RatMul(Decimal(days[1][1]), 24))
          [] days = null /\ daysHours # null ->
                Some(RatAdd(RatMul(Decimal(daysHours[1][1]), 24), Decimal(daysHours[1][5])))
          [] days = null /\ daysHours = null /\ hoursForm # null ->
                Some(Decimal(hoursForm[1][1]))
          [] days = null /\ daysHours = null /\ hoursForm = null /\ hoursMinutes # null ->
                Some(RatAdd(Decimal(hoursMinutes[1][1]), sixtieth(hoursMinutes[1][5])))
          [] days = null /\ daysHours = null /\ hoursForm = null /\ hoursMinutes = null
             /\ hoursOnly # null ->
                Some(Decimal(hoursOnly[1][1]))
          [] days = null /\ daysHours = null /\ hoursForm = null /\ hoursMinutes = null
             /\ hoursOnly = null /\ minutes # null ->
                Some(sixtieth(minutes[1][1]))
          [] days = null /\ daysHours = null /\ hoursForm = null /\ hoursMinutes = null
             /\ hoursOnly = null /\ minutes = null /\ colon # null ->
                Some(RatAdd(Decimal(colon[1][1]), sixtieth(colon[1][3])))
          [] days = null /\ daysHours = null /\ hoursForm = null /\ hoursMinutes = null
             /\ hoursOnly = null /\ minutes = null /\ colon = null /\ plain # null ->
                Some(Decimal(plain[1][1]))
          [] OTHER -> null

\* C12: a text that matches a recognised form in full is parsed to the hours
\* that form defines, the first matching form in the listed order winning.
C12_RecognisedFormGivesItsHours ==
    Parsed => \A expected \in {FormHours(Trimmed)} :
                  expected # null => hours = expected

\* "5h 30m" is parsed to 5.5 hours.
C12_Witness ==
    /\ Parsed
    /\ text = <<"5", "h", " ", "3", "0", "m">>
    /\ hours = Some([num |-> 11, den |-> 2])

----------------------------------------------------------------------------
(* Claims about formatDuration, checked under SpecFormat *)

Formatted == pc = "done"

DayMode == useDays /\ AtLeast(hours[1], 24)

\* The integer nearest to x (a half rounding up), written as a relation.
Nearest(x) ==
    CHOOSE n \in 0..(Floor(x) + 1) : 2 * n * x.den - x.den <= 2 * x.num
                                      /\ 2 * x.num < 2 * n * x.den + x.den

\* The number of whole days in the duration and what is left of it, in hours.
WholeDays == CHOOSE d \in 0..MaxFormatHours :
                24 * d * hours[1].den <= hours[1].num /\ hours[1].num < 24 * (d + 1) * hours[1].den

LeftOver == RatSub(hours[1], 24 * WholeDays)

\* C13: in day mode the text is "<days>d" when the remainder rounds to 0 and
\* "<days>d <round(remainder)>h" otherwise.
C13_DayModeText ==
    (Formatted /\ DayMode) =>
        text = IF Nearest(LeftOver) = 0
               THEN NumberToString(WholeDays) \o <<"d">>
               ELSE NumberToString(WholeDays) \o <<"d", " ">> \o NumberToString(Nearest(LeftOver)) \o <<"h">>

\* The whole hours of the duration and the minutes nearest to the rest.
WholeHours == CHOOSE w \in 0..MaxFormatHours :
                 w * hours[1].den <= hours[1].num /\ hours[1].num < (w + 1) * hours[1].den

Minutes == Nearest(RatMul(RatSub(hours[1], WholeHours), 60))

\* C14: outside day mode the text is not empty and is "<minutes>m" when there
\* are no whole hours, "<wholeHours>h" when the minutes are 0, and
\* "<wholeHours>h <minutes>m" otherwise; 60 minutes are printed as 60.
C14_HourModeText ==
    (Formatted /\ ~DayMode) =>
        /\ text # <<>>
        /\ Minutes \in 0..60
        /\ text = IF WholeHours = 0 THEN NumberToString(Minutes) \o <<"m">>
                  ELSE IF Minutes = 0 THEN NumberToString(WholeHours) \o <<"h">>
                  ELSE NumberToString(WholeHours) \o <<"h", " ">> \o NumberToString(Minutes) \o <<"m">>
        /\ Minutes = 60 => SubSeq(text, Len(text) - 2, Len(text)) = <<"6", "0", "m">>

\* 1.999 hours is shown as "1h 60m".
C14_Witness ==
    /\ Formatted
    /\ ~useDays
    /\ hours = Some(Rat(1999, 1000))
    /\ text = <<"1", "h", " ", "6", "0", "m">>

----------------------------------------------------------------------------
(* Claims about the store and the itinerary table, checked under SpecStore *)

\* C15: a time-at-destination edit whose text parseDuration does not match
\* leaves the stop list, every stop and every field of it, as it was.
C15_UnmatchedEditKeepsStops ==
    [][(HandleTimeAtDestChange /\ hours' = null) => UNCHANGED <<stops, calculatedStops>>]_vars

\* "abc" was typed, as the only edit, into a stop's field: the stop still has
\* the hour it was added with.
C15_Witness ==
    /\ text = <<"a", "b", "c">>
    /\ hours = null
    /\ edits = 1
    /\ Len(stops) = 2
    /\ \A k \in 1..2 : stops[k].timeAtDestination = 3600

\* The drive time of the leg that ends at position k of the stop list.
LegHours(k) == DrivingHours(stops[k - 1].placeId, stops[k].placeId)

\* C16: a stop at index >= 1 with a driveTimeFromPrevious holds the drive time
\* of the leg from the stop that is now immediately before it.
C16_DriveTimeIsOfCurrentLeg ==
    \A k \in 2..Len(stops) :
        stops[k].driveTimeFromPrevious # null =>
            stops[k].driveTimeFromPrevious = Some(LegHours(k))

----------------------------------------------------------------------------
(* Claims about the middleware, checked under SpecAuth *)

Responded == pc = "done"

Configured == ~Falsy(user) /\ ~Falsy(password)

\* The one header that carries the configured credentials.
ExactHeader ==
    Some(<<"B", "a", "s", "i", "c", " ">> \o btoa(Codes(user[1] \o <<":">> \o password[1])))

\* C17: with both variables set a request is admitted exactly when its
\* Authorization header is "Basic " and the base64 of "<user>:<password>";
\* otherwise every request is admitted.
C17_AdmitsExactCredentialsOnly ==
    Responded =>
        IF Configured
        THEN response = "next" <=> authHeader = ExactHeader
        ELSE response = "next"

----------------------------------------------------------------------------
(* More claims about the store, checked under SpecStore and SpecSettle *)

\* C18: the calculatedStops the store exposes is calculateItinerary of the
\* stops and the startDateTime it holds now, with one entry per stop, in the
\* order of the stops.
C18_ExposedItineraryIsCurrent ==
    /\ calculatedStops = calculateItinerary(stops, startDateTime)
    /\ Len(calculatedStops) = Len(stops)
    /\ \A k \in 1..Len(stops) : calculatedStops[k].id = stops[k].id

\* Two stops, the second with a drive time, after the start time was changed.
C18_Witness ==
    /\ Len(stops) = 2
    /\ startDateTime = 0
    /\ stops[2].driveTimeFromPrevious # null
    /\ calculatedStops[1].departureTime = 0
    /\ calculatedStops[2].arrivalTime = Some(stops[2].driveTimeFromPrevious[1])

\* A stop with its driveTimeFromPrevious left out.
WithoutDriveTime(stop) == [f \in (DOMAIN stop) \ {"driveTimeFromPrevious"} |-> stop[f]]

\* The stops of a list other than the one at an index (from 0), in their order.
Others(stopList, index) ==
    [k \in 1..(Len(stopList) - 1) |-> IF k <= index THEN stopList[k] ELSE stopList[k + 1]]

\* C19: reorderStops(fromIndex, toIndex) puts the stop at fromIndex at toIndex,
\* keeps the order of the other stops, changes no field of any stop but
\* driveTimeFromPrevious, and leaves that null on every stop.
C19_ReorderMovesOneStop ==
    \A fromIndex, toIndex \in 0..(Len(stops) - 1) :
        \A moved \in {reorderStops(stops, fromIndex, toIndex)} :
            /\ Len(moved) = Len(stops)
            /\ WithoutDriveTime(moved[toIndex + 1]) = WithoutDriveTime(stops[fromIndex + 1])
            /\ \A others \in {<<Others(moved, toIndex), Others(stops, fromIndex)>>} :
                  \A k \in 1..(Len(stops) - 1) :
                      WithoutDriveTime(others[1][k]) = WithoutDriveTime(others[2][k])
            /\ \A k \in 1..Len(moved) : moved[k].driveTimeFromPrevious = null

\* Three stops, in another order than they were added in, with a drive time
\* and a departure set by hand to carry along.
C19_Witness ==
    /\ Len(stops) = 3
    /\ stops[1].id > stops[2].id
    /\ \E k \in 1..3 : stops[k].driveTimeFromPrevious # null
    /\ \E k \in 1..3 : stops[k].manualDepartureTime # null

AllDriveTimesKnown == \A k \in 2..Len(stops) : stops[k].driveTimeFromPrevious # null

\* C20: when the user only adds and reorders stops and every lookup is
\* answered, in the end every stop at index >= 1 has a driveTimeFromPrevious and
\* keeps one.
C20_DriveTimesSettle == <>[]AllDriveTimesKnown

\* Three stops were added and reordered, and all lookups have answered.
C20_Witness ==
    /\ Len(stops) = 3
    /\ edits >= 1
    /\ lookups = {}
    /\ AllDriveTimesKnown

\* C21: every stop of the store has a timeAtDestination that is not negative.
C21_TimeAtDestinationNotNegative ==
    \A k \in 1..Len(stops) : stops[k].timeAtDestination >= 0

----------------------------------------------------------------------------
(* Claims about buildSegments, checked under SpecMap *)

Built == pc = "done" /\ segments # null

\* The legs (a, b) a segment draws, in order.
LegsOf(indices) == [k \in 1..(Len(indices) - 1) |-> <<indices[k], indices[k + 1]>>]

RECURSIVE AllLegs(_)
AllLegs(segs) ==
    IF segs = <<>> THEN <<>> ELSE LegsOf(Head(segs).stopIndices) \o AllLegs(Tail(segs))

\* The leg that ends at the 0-based index k is flown.
Flown(k) == calculatedStops[k + 1].travelType = "fly"

\* C22: for fewer than two stops buildSegments gives no segment; otherwise the
\* legs of its segments, taken in order, are exactly the legs (0,1), (1,2), ...,
\* (n-2,n-1), each once; a segment is a 'fly' segment of one leg whose
\* destination has travelType 'fly', or a 'drive' segment of legs none of which
\* is flown, and no two neighbouring segments are both 'drive' segments.
C22_SegmentsCoverLegsInOrder ==
    Built =>
        IF Len(calculatedStops) < 2
        THEN segments = <<>>
        ELSE /\ AllLegs(segments) = [k \in 1..(Len(calculatedStops) - 1) |-> <<k - 1, k>>]
             /\ \A s \in 1..Len(segments) :
                   /\ Len(segments[s].stopIndices) >= 2
                   /\ IF segments[s].type = "fly"
                      THEN /\ Len(segments[s].stopIndices) = 2
                           /\ Flown(segments[s].stopIndices[2])
                      ELSE /\ segments[s].type = "drive"
                           /\ \A k \in 2..Len(segments[s].stopIndices) :
                                 ~Flown(segments[s].stopIndices[k])
                           /\ s > 1 => segments[s - 1].type = "fly"

\* A trip whose map has a drive segment of two legs, one of them to a stop
\* without a travelType, and a fly segment.
C22_Witness ==
    /\ Built
    /\ \E s \in 1..Len(segments) :
          /\ segments[s].type = "drive"
          /\ Len(segments[s].stopIndices) >= 3
          /\ \E k \in 2..Len(segments[s].stopIndices) :
                calculatedStops[segments[s].stopIndices[k] + 1].travelType = "undefined"
    /\ \E s \in 1..Len(segments) : segments[s].type = "fly"

----------------------------------------------------------------------------
(* Further claims about calculateItinerary, checked under SpecCalc *)

NoOverrides == \A k \in 1..Len(stops) : stops[k].manualDepartureTime = null

\* The driving and staying time of the stops at positions k and later.
RECURSIVE TimeFrom(_, _)
TimeFrom(stopList, k) ==
    IF k > Len(stopList)
    THEN 0
    ELSE Coalesce(stopList[k].driveTimeFromPrevious, 0) + stopList[k].timeAtDestination
         + TimeFrom(stopList, k + 1)

\* The stop list with other timing fields on its first stop.
WithFirst(t, d) ==
    [stops EXCEPT ![1].timeAtDestination = t, ![1].driveTimeFromPrevious = d]

\* C23: with no manualDepartureTime anywhere, the last stop departs at
\* startDateTime plus the driveTimeFromPrevious (null as 0) and the
\* timeAtDestination of the stops at index >= 1; and whatever the
\* timeAtDestination and driveTimeFromPrevious of the stop at index 0 are, every
\* computed time is the same.
C23_LastDepartureIsStartPlusLaterStops ==
    (Returned /\ Len(stops) >= 1) =>
        /\ NoOverrides =>
              calculatedStops[Len(stops)].departureTime
                  = startDateTime + TimeFrom(stops, 2)
        /\ \A t \in TimeAtDestValues, d \in DriveTimeValues :
              Times(calculateItinerary(WithFirst(t, d), startDateTime))
                  = Times(calculatedStops)

\* Four stops without overrides; the first has a stay and a drive time of its
\* own, one later leg has no drive time yet and one has.
C23_Witness ==
    /\ Returned
    /\ Len(stops) = 4
    /\ NoOverrides
    /\ stops[1].timeAtDestination = 5400
    /\ stops[1].driveTimeFromPrevious = Some(7200)
    /\ stops[2].driveTimeFromPrevious = null
    /\ stops[3].driveTimeFromPrevious = Some(7200)
    /\ startDateTime = 28800
    /\ calculatedStops[4].departureTime = 28800 + TimeFrom(stops, 2)
    /\ calculatedStops[4].departureTime # 28800 + TimeFrom(stops, 1)

\* Another input that agrees with stops on the manualDepartureTime of the stop
\* at position k and on every stop after it: n stops with the timing t before
\* it, and the timeAtDestination and driveTimeFromPrevious of t on stop k.
OtherInput(k, n, t) ==
    [j \in 1..n |-> t @@ Place(j)]
    \o <<[stops[k] EXCEPT !.timeAtDestination = t.timeAtDestination,
                          !.driveTimeFromPrevious = t.driveTimeFromPrevious]>>
    \o SubSeq(stops, k + 1, Len(stops))

\* The times of the last n stops of a result.
LastTimes(out, n) == SubSeq(Times(out), Len(out) - n + 1, Len(out))

\* C24: when stop k has a manualDepartureTime, an input with another
\* startDateTime, other stops (more or fewer) before k and other timing fields
\* on stop k, but the same manualDepartureTime on k and the same stops after k,
\* gives the stops after k the same arrivalTime and departureTime.
C24_OverrideCutsOffEarlierInput ==
    Returned =>
        \A k \in 1..Len(stops) :
            stops[k].manualDepartureTime # null =>
                \A start \in StartTimes, n \in 0..k, t \in Timing :
                    LastTimes(calculateItinerary(OtherInput(k, n, t), start), Len(stops) - k)
                        = LastTimes(calculatedStops, Len(stops) - k)

\* The second of four stops has an override earlier than its arrival, and the
\* two stops after it have none: the third arrives from the override.
C24_Witness ==
    /\ Returned
    /\ Len(stops) = 4
    /\ startDateTime = 28800
    /\ stops[2].manualDepartureTime = Some(3600)
    /\ stops[3].manualDepartureTime = null
    /\ stops[4].manualDepartureTime = null
    /\ calculatedStops[2].arrivalTime # Some(3600)
    /\ calculatedStops[3].arrivalTime
           = Some(3600 + Coalesce(stops[3].driveTimeFromPrevious, 0))
    /\ Times(calculateItinerary(OtherInput(2, 0, stops[1]), 0))[1] # Times(calculatedStops)[2]

----------------------------------------------------------------------------
(* Claims about the store, checked under SpecPatient *)

\* C25: when the user waits for the lookups, the driveTimeFromPrevious of every
\* stop at index >= 1 is null or the drive time looked up for the leg from the
\* stop now before it (also just after a stop was removed).
C25_PatientDriveTimeIsOfCurrentLeg ==
    \A k \in 2..Len(stops) :
        stops[k].driveTimeFromPrevious \in {null, Some(LegHours(k))}

----------------------------------------------------------------------------
(* Further claims about the store and its table, checked under SpecStore *)

\* The driving time in the schedule: from each departure to the next arrival.
RECURSIVE ScheduledDriveTime(_)
ScheduledDriveTime(out) ==
    IF Len(out) < 2
    THEN 0
    ELSE ScheduledDriveTime(SubSeq(out, 1, Len(out) - 1))
         + (out[Len(out)].arrivalTime[1] - out[Len(out) - 1].departureTime)

\* C26: the total drive time of the summary (shown for two stops or more; the
\* PDF prints the same sum) is the driving time calculateItinerary put into the
\* schedule: the driveTimeFromPrevious of the stops at index >= 1, and nothing
\* for the stop at index 0.
C26_TotalIsScheduledDriveTime ==
    Len(calculatedStops) > 1 =>
        TotalDriveTime(calculatedStops) = ScheduledDriveTime(calculatedStops)

----------------------------------------------------------------------------
(* Claims about sharing and export, checked under SpecShare *)

\* The travelType of a stop ("undefined": the stop has no such field).
TravelTypeOf(stop) ==
    IF "travelType" \in DOMAIN stop THEN stop.travelType ELSE "undefined"

\* The link was generated from the trip the store holds now.
LinkIsCurrent ==
    /\ shared # null
    /\ shared[1] = compressTrip(tripName, startDateTime, stops)

\* C27: the trip decompressTrip reads from a link generated for the current
\* trip has the same name and start, as many stops, each agreeing with the
\* original on timeAtDestination, driveTimeFromPrevious, manualDepartureTime,
\* travelType and notes, and calculateItinerary gives it the same times.
C27_ShareLinkRestoresTrip ==
    LinkIsCurrent =>
        \A loaded \in {decompressTrip(shared[1], nextId)} :
            /\ loaded.tripName = tripName
            /\ loaded.startDateTime = startDateTime
            /\ Len(loaded.stops) = Len(stops)
            /\ \A k \in 1..Len(stops) :
                  /\ loaded.stops[k].timeAtDestination = stops[k].timeAtDestination
                  /\ loaded.stops[k].driveTimeFromPrevious = stops[k].driveTimeFromPrevious
                  /\ loaded.stops[k].manualDepartureTime = stops[k].manualDepartureTime
                  /\ TravelTypeOf(loaded.stops[k]) = TravelTypeOf(stops[k])
                  /\ loaded.stops[k].notes = stops[k].notes
            /\ Times(calculateItinerary(loaded.stops, loaded.startDateTime))
                   = Times(calculatedStops)

\* C28: importing the exported file leaves the store holding the trip the file
\* was written from, whatever it held before: its tripName (the empty one
\* too), its startDateTime and its stops, field by field, are those whose
\* export is the file.
C28_ImportRestoresExportedTrip ==
    [][ImportExported =>
          exportTrip(tripName', startDateTime', stops') = exported[1]]_vars

----------------------------------------------------------------------------
(* Further claims about formatDuration and parseDuration, checked under SpecFormat *)

ParsedBack == pc = "parsed"

\* A whole number of minutes below a day, or a whole number of hours from a day on.
RoundTripDomain ==
    IF AtLeast(hours[1], 24) THEN hours[1].den = 1 ELSE 60 % hours[1].den = 0

C30_DayModeHoursInRange ==
    (Formatted /\ DayMode) =>
        \E d \in 0..MaxFormatHours :
            /\ 24 * d <= Nearest(hours[1])
            /\ \/ text = NumberToString(d) \o <<"d">>
               \/ \E h \in 1..23 :
                     /\ text = NumberToString(d) \o <<"d", " ">> \o NumberToString(h) \o <<"h">>
                     /\ 24 * d + h <= Nearest(hours[1])

====
